---- MODULE Spec2Model ----
(***************************************************************************)
(* Model of the sarpa argument parser (src/src/lib.rs): the definition     *)
(* registry with its builder calls, Parser::parse with validate_args and   *)
(* extract_option, and Parser::generate_help.                              *)
(*                                                                         *)
(* A Rust String is a sequence of one-character strings, so that           *)
(* strip_prefix, chars() and the `{:<20}` padding are computed, not        *)
(* assumed.  Option<T> is the empty sequence (None) or a one-element       *)
(* sequence (Some).  HashSet<String> is a set, HashMap<String, String> a   *)
(* function whose domain is the set of keys.                               *)
(***************************************************************************)
EXTENDS Integers, Sequences, FiniteSets, TLC

VARIABLES definitions, args, result, help_out

vars == <<definitions, args, result, help_out>>

\* ------------------------------------------------------------------ bounds

\* Largest number of definitions registered.
MaxDefs == 2

\* Largest number of tokens handed to parse, the program name included.
MaxArgs == 4

\* ------------------------------------------------------------ input alphabet

NameHelp == <<"h", "e", "l", "p">>
NameOut == <<"o", "u", "t">>

\* Long names handed to add_flag / add_option / add_positional.
LongNames == {NameHelp, NameOut}

\* Characters handed to with_short_name.
ShortNames == {"h", "o"}

\* Text handed to with_help.
HelpTexts == {<<"t", "x", "t">>}

TokHelpLong == <<"-", "-">> \o NameHelp
TokHelpShort == <<"-", "h">>
TokOutLong == <<"-", "-">> \o NameOut
TokCluster == <<"-", "h", "o">>
TokBare == <<"f">>
TokOther == <<"g">>
TokDash == <<"-">>

\* Tokens of the argument vector after the program name.
Tokens ==
    {TokHelpLong, TokHelpShort, TokOutLong, TokCluster, TokBare, TokOther, TokDash}

\* First tokens of the argument vector (conventionally the program name).
ProgramTokens == {TokBare, TokHelpLong}

\* ------------------------------------------------------------------ strings

\* str::strip_prefix: Some(rest) when s starts with p, None otherwise.
StripPrefix(s, p) ==
    IF Len(s) >= Len(p) /\ SubSeq(s, 1, Len(p)) = p
    THEN <<SubSeq(s, Len(p) + 1, Len(s))>>
    ELSE <<>>

\* ------------------------------------------------------------- definitions

\* struct Argument as Parser::add creates it.
NewArgument(long_name, arg_type) ==
    [arg_type |-> arg_type, short_name |-> <<>>, long_name |-> long_name,
     help |-> <<>>, required |-> FALSE]

\* Parser::add: push the new definition.
Add(defs, long_name, arg_type) == Append(defs, NewArgument(long_name, arg_type))

\* definitions.last_mut() with one field assigned.
SetLast(defs, field, value) ==
    [defs EXCEPT ![Len(defs)] = [@ EXCEPT ![field] = value]]

(* definitions.iter().find(|x| x.long_name == arg_without_prefix), from the *)
(* definition at i: the index of the first match, 0 for None.              *)
RECURSIVE FindLongFrom(_, _, _)
FindLongFrom(defs, name, i) ==
    IF i > Len(defs) THEN 0
    ELSE IF defs[i].long_name = name THEN i
    ELSE FindLongFrom(defs, name, i + 1)

FindLong(defs, name) == FindLongFrom(defs, name, 1)

(* definitions.iter().find(|x| x.short_name == Some(char)), from the        *)
(* definition at i: the index of the first match, 0 for None.              *)
RECURSIVE FindShortFrom(_, _, _)
FindShortFrom(defs, char, i) ==
    IF i > Len(defs) THEN 0
    ELSE IF defs[i].short_name = <<char>> THEN i
    ELSE FindShortFrom(defs, char, i + 1)

FindShort(defs, char) == FindShortFrom(defs, char, 1)

\* ------------------------------------------------------------------ results

\* enum ArgParseError.
UnknownArgument(s) == [variant |-> "UnknownArgument", name |-> s]
MissingValueForOption(s) == [variant |-> "MissingValueForOption", name |-> s]
OptionInMiddleOfGroup(s) == [variant |-> "OptionInMiddleOfGroup", name |-> s]
HelpRequested == [variant |-> "HelpRequested", name |-> <<>>]
MissingRequiredArgument(s) == [variant |-> "MissingRequiredArgument", name |-> s]

\* Result<_, ArgParseError>, and the panic of unreachable!().
Ok(v) == [tag |-> "Ok", val |-> v]
Err(e) == [tag |-> "Err", val |-> e]
Panic == [tag |-> "Panic", val |-> <<>>]

\* No call has returned.
NoResult == [tag |-> "None", val |-> <<>>]

\* ParsedArgs as parse creates it.
EmptyParsedArgs == [flags |-> {}, options |-> <<>>, positional |-> <<>>]

\* A map insertion that keeps the value a key already has.
MapInsertKeepFirst(m, k, v) ==
    [x \in (DOMAIN m) \cup {k} |-> IF x \in DOMAIN m THEN m[x] ELSE v]

\* HashMap::insert: the key's value is set, a former value overwritten.
MapInsert(m, k, v) ==
    [x \in (DOMAIN m) \cup {k} |-> IF x = k THEN v ELSE m[x]]

\* ------------------------------------------------------------------- parse

(* The locals of parse between two iterations of its `while let` loop:     *)
(* results, the position of the next token the iterator yields, and the    *)
(* value of a `return` (or the panic) that has left the loop.              *)
ParseState(results, next, ret) == [results |-> results, next |-> next, ret |-> ret]

\* Iterator::next on the argument vector: the item (an Option) and the new position.
IterNext(argv, next) ==
    IF next <= Len(argv)
    THEN [item |-> <<argv[next]>>, next |-> next + 1]
    ELSE [item |-> <<>>, next |-> next]

\* An extract_option that lets an option without a value pass.
ExtractOptionNoError(argv, st, x) ==
    LET nx == IterNext(argv, st.next) IN
    IF nx.item # <<>>
    THEN ParseState([st.results EXCEPT
                        !.options = MapInsert(@, x.long_name, nx.item[1])],
                    nx.next, st.ret)
    ELSE ParseState(st.results, nx.next, st.ret)

\* Parser::extract_option on the state st for the definition x.
ExtractOption(argv, st, x) ==
    LET nx == IterNext(argv, st.next) IN
    IF nx.item # <<>>
    THEN ParseState([st.results EXCEPT
                        !.options = MapInsert(@, x.long_name, nx.item[1])],
                    nx.next, st.ret)
    ELSE ParseState(st.results, nx.next, <<Err(MissingValueForOption(x.long_name))>>)

\* results.flags.insert(def.long_name.clone())
InsertFlag(st, x) ==
    [st EXCEPT !.results = [@ EXCEPT !.flags = @ \cup {x.long_name}]]

\* A `--` branch that skips a name it does not know.
LongBranchSkipUnknown(defs, argv, st, arg_without_prefix) ==
    LET d == FindLong(defs, arg_without_prefix) IN
    IF d = 0
    THEN st
    ELSE CASE defs[d].arg_type = "Flag" -> InsertFlag(st, defs[d])
           [] defs[d].arg_type = "Option" -> ExtractOption(argv, st, defs[d])
           [] defs[d].arg_type = "Positional" -> [st EXCEPT !.ret = <<Panic>>]

\* The `--` branch of parse for the stripped token.
LongBranch(defs, argv, st, arg_without_prefix) ==
    LET d == FindLong(defs, arg_without_prefix) IN
    IF d = 0
    THEN [st EXCEPT !.ret = <<Err(UnknownArgument(arg_without_prefix))>>]
    ELSE CASE defs[d].arg_type = "Flag" -> InsertFlag(st, defs[d])
           [] defs[d].arg_type = "Option" -> ExtractOption(argv, st, defs[d])
           [] defs[d].arg_type = "Positional" -> [st EXCEPT !.ret = <<Panic>>]

\* A cluster loop that takes an option's value wherever the option stands.
RECURSIVE GroupLoopAnywhere(_, _, _, _, _)
GroupLoopAnywhere(defs, argv, st, chars, i) ==
    IF i > Len(chars) THEN st
    ELSE
      LET d == FindShort(defs, chars[i]) IN
      IF d = 0
      THEN [st EXCEPT !.ret = <<Err(UnknownArgument(<<chars[i]>>))>>]
      ELSE CASE defs[d].arg_type = "Flag" ->
                  GroupLoopAnywhere(defs, argv, InsertFlag(st, defs[d]), chars, i + 1)
             [] defs[d].arg_type = "Option" -> ExtractOption(argv, st, defs[d])
             [] defs[d].arg_type = "Positional" -> [st EXCEPT !.ret = <<Panic>>]

\* The `for (i, char)` loop of the `-` branch, from the character at i (1-based).
RECURSIVE GroupLoop(_, _, _, _, _)
GroupLoop(defs, argv, st, chars, i) ==
    IF i > Len(chars) THEN st
    ELSE
      LET d == FindShort(defs, chars[i]) IN
      IF d = 0
      THEN [st EXCEPT !.ret = <<Err(UnknownArgument(<<chars[i]>>))>>]
      ELSE CASE defs[d].arg_type = "Flag" ->
                  GroupLoop(defs, argv, InsertFlag(st, defs[d]), chars, i + 1)
             [] defs[d].arg_type = "Option" ->
                  IF i = Len(chars)
                  THEN ExtractOption(argv, st, defs[d])
                  ELSE [st EXCEPT
                          !.ret = <<Err(OptionInMiddleOfGroup(defs[d].long_name))>>]
             [] defs[d].arg_type = "Positional" -> [st EXCEPT !.ret = <<Panic>>]

\* A push that puts the token before the earlier ones.
PushPositionalFront(st, arg) ==
    [st EXCEPT !.results = [@ EXCEPT !.positional = <<arg>> \o @]]

\* results.positional.push(arg)
PushPositional(st, arg) ==
    [st EXCEPT !.results = [@ EXCEPT !.positional = Append(@, arg)]]

\* A loop body that asks for help only when the name is not a registered one.
LoopBodyHelpLast(defs, argv, st, arg) ==
    IF StripPrefix(arg, <<"-", "-">>) # <<>>
    THEN IF arg = <<"-", "-", "h", "e", "l", "p">>
            /\ FindLong(defs, StripPrefix(arg, <<"-", "-">>)[1]) = 0
         THEN [st EXCEPT !.ret = <<Err(HelpRequested)>>]
         ELSE LongBranch(defs, argv, st, StripPrefix(arg, <<"-", "-">>)[1])
    ELSE IF StripPrefix(arg, <<"-">>) # <<>>
    THEN IF arg = <<"-", "h">> /\ FindShort(defs, "h") = 0
         THEN [st EXCEPT !.ret = <<Err(HelpRequested)>>]
         ELSE GroupLoop(defs, argv, st, StripPrefix(arg, <<"-">>)[1], 1)
    ELSE PushPositional(st, arg)

\* The body of the `while let Some(arg) = args.next()` loop for the token arg.
LoopBody(defs, argv, st, arg) ==
    IF arg = <<"-", "-", "h", "e", "l", "p">> \/ arg = <<"-", "h">>
    THEN [st EXCEPT !.ret = <<Err(HelpRequested)>>]
    ELSE IF StripPrefix(arg, <<"-", "-">>) # <<>>
    THEN LongBranch(defs, argv, st, StripPrefix(arg, <<"-", "-">>)[1])
    ELSE IF StripPrefix(arg, <<"-">>) # <<>>
    THEN GroupLoop(defs, argv, st, StripPrefix(arg, <<"-">>)[1], 1)
    ELSE PushPositional(st, arg)

\* One iteration of the loop: the state is left alone once the loop is over.
LoopStep(defs, argv, st) ==
    IF st.ret # <<>> THEN st
    ELSE LET nx == IterNext(argv, st.next) IN
         IF nx.item = <<>> THEN st
         ELSE LoopBody(defs, argv, [st EXCEPT !.next = nx.next], nx.item[1])

\* The `while let` loop, run until a return or the end of the tokens.
RECURSIVE WhileLoop(_, _, _)
WhileLoop(defs, argv, st) ==
    IF st.ret # <<>> \/ st.next > Len(argv) THEN st
    ELSE WhileLoop(defs, argv, LoopStep(defs, argv, st))

\* The match of validate_args: whether the definition was provided.
WasProvided(def, results) ==
    CASE def.arg_type = "Flag" -> def.long_name \in results.flags
      [] def.arg_type = "Option" -> def.long_name \in DOMAIN results.options
      [] def.arg_type = "Positional" -> results.positional # <<>>

\* Parser::validate_args, from the definition at i.
RECURSIVE ValidateFrom(_, _, _)
ValidateFrom(defs, results, i) ==
    IF i > Len(defs) THEN Ok(<<>>)
    ELSE IF defs[i].required /\ ~WasProvided(defs[i], results)
    THEN Err(MissingRequiredArgument(defs[i].long_name))
    ELSE ValidateFrom(defs, results, i + 1)

\* A validation that reports the last unsatisfied definition, not the first.
RECURSIVE ValidateBackFrom(_, _, _)
ValidateBackFrom(defs, results, i) ==
    IF i < 1 THEN Ok(<<>>)
    ELSE IF defs[i].required /\ ~WasProvided(defs[i], results)
    THEN Err(MissingRequiredArgument(defs[i].long_name))
    ELSE ValidateBackFrom(defs, results, i - 1)

ValidateArgsLastFirst(defs, results) == ValidateBackFrom(defs, results, Len(defs))

\* Parser::validate_args.
ValidateArgs(defs, results) == ValidateFrom(defs, results, 1)

\* A start of the loop that keeps the program name as a token.
LoopStartNoSkip(argv) == ParseState(EmptyParsedArgs, 1, <<>>)

\* The state of parse when its loop starts: `args.next(); // skip program name`.
LoopStart(argv) == ParseState(EmptyParsedArgs, IterNext(argv, 1).next, <<>>)

\* Parser::parse.
ParseArgs(defs, argv) ==
    LET st == WhileLoop(defs, argv, LoopStart(argv)) IN
    IF st.ret # <<>> THEN st.ret[1]
    ELSE LET v == ValidateArgs(defs, st.results) IN
         IF v.tag = "Err" THEN v ELSE Ok(st.results)

\* ----------------------------------------------------------- generate_help

(* env!("CARGO_PKG_NAME") and env!("CARGO_PKG_VERSION"): fixed by the       *)
(* crate's manifest when it is built; nothing below depends on the values. *)
PkgName == <<"s", "a", "r", "p", "a">>
PkgVersion == <<"0", ".", "1", ".", "0">>

\* Widths of `{:<20}` and `{:<22}`.
OptionNameWidth == 20
PositionalNameWidth == 22

\* n spaces.
Spaces(n) == [i \in 1..n |-> " "]

\* format!("{:<w}", s): s, then spaces up to the width w; a longer s is not cut.
PadRight(s, w) == IF Len(s) >= w THEN s ELSE s \o Spaces(w - Len(s))

\* short_name.map_or_else(|| "    ", |c| format!("-{}, ", c))
ShortColumn(def) ==
    IF def.short_name = <<>> THEN Spaces(4)
    ELSE <<"-", def.short_name[1], ",", " ">>

\* format!("  {}{:<20} {}\n", short, def.long_name, def.help)
OptionLine(def) ==
    Spaces(2) \o ShortColumn(def) \o PadRight(def.long_name, OptionNameWidth)
        \o <<" ">> \o def.help \o <<"\n">>

\* format!("  {:<22} {}\n", def.long_name, def.help)
PositionalLine(def) ==
    Spaces(2) \o PadRight(def.long_name, PositionalNameWidth)
        \o <<" ">> \o def.help \o <<"\n">>

\* The first `for def` loop of generate_help, from the definition at i.
RECURSIVE OptionLines(_, _)
OptionLines(defs, i) ==
    IF i > Len(defs) THEN <<>>
    ELSE (IF defs[i].arg_type \in {"Flag", "Option"} THEN OptionLine(defs[i]) ELSE <<>>)
         \o OptionLines(defs, i + 1)

\* The second `for def` loop of generate_help, from the definition at i.
RECURSIVE PositionalLines(_, _)
PositionalLines(defs, i) ==
    IF i > Len(defs) THEN <<>>
    ELSE (IF defs[i].arg_type = "Positional" THEN PositionalLine(defs[i]) ELSE <<>>)
         \o PositionalLines(defs, i + 1)

\* format!("{} {}\n", name, version)
VersionText == PkgName \o <<" ">> \o PkgVersion \o <<"\n">>

\* format!("Usage: {} [OPTIONS] [ARGUMENTS]\n", name)
UsageText ==
    <<"U", "s", "a", "g", "e", ":", " ">> \o PkgName
        \o <<" ", "[", "O", "P", "T", "I", "O", "N", "S", "]",
             " ", "[", "A", "R", "G", "U", "M", "E", "N", "T", "S", "]", "\n">>

\* "\nOptions:\n"
OptionsText == <<"\n", "O", "p", "t", "i", "o", "n", "s", ":", "\n">>

\* "\nArguments:\n"
ArgumentsText == <<"\n", "A", "r", "g", "u", "m", "e", "n", "t", "s", ":", "\n">>

\* Parser::generate_help: the String it returns.
GenerateHelp(defs) ==
    VersionText \o UsageText \o OptionsText \o OptionLines(defs, 1)
        \o ArgumentsText \o PositionalLines(defs, 1)

\* ---------------------------------------------------------------- actions

\* The sequences of at most n tokens.
RECURSIVE TokenSeqs(_)
TokenSeqs(n) ==
    IF n = 0 THEN {<<>>}
    ELSE LET shorter == TokenSeqs(n - 1) IN
         shorter \cup {Append(s, t) : s \in {x \in shorter : Len(x) = n - 1}, t \in Tokens}

\* Argument vectors: empty, or a first token followed by up to MaxArgs - 1 tokens.
ShortVectors ==
    {<<>>} \cup {<<p>> \o r : p \in ProgramTokens, r \in TokenSeqs(MaxArgs - 1)}

\* Argument vectors that name an option twice, each time followed by a token.
RepeatVectors ==
    {<<p, o1, v1, o2, v2>> :
        p \in ProgramTokens, o1 \in {TokOutLong, TokCluster}, v1 \in Tokens,
        o2 \in {TokOutLong, TokCluster}, v2 \in Tokens}

\* The argument vectors handed to parse.
ArgVectors == ShortVectors \cup RepeatVectors

Init ==
    /\ definitions = <<>>
    /\ args = <<>>
    /\ result = NoResult
    /\ help_out = <<>>

(* No call's input and return value are held by the caller.  The model     *)
(* records one call at a time: args and result (or help_out) hold the last *)
(* call until the caller drops them, and the registry is changed only in   *)
(* between.                                                                *)
Idle == result = NoResult /\ help_out = <<>>

AddFlag ==
    /\ Idle
    /\ Len(definitions) < MaxDefs
    /\ \E n \in LongNames : definitions' = Add(definitions, n, "Flag")
    /\ UNCHANGED <<args, result, help_out>>

AddOption ==
    /\ Idle
    /\ Len(definitions) < MaxDefs
    /\ \E n \in LongNames : definitions' = Add(definitions, n, "Option")
    /\ UNCHANGED <<args, result, help_out>>

AddPositional ==
    /\ Idle
    /\ Len(definitions) < MaxDefs
    /\ \E n \in LongNames : definitions' = Add(definitions, n, "Positional")
    /\ UNCHANGED <<args, result, help_out>>

WithShortName ==
    /\ Idle
    /\ Len(definitions) > 0
    /\ \E c \in ShortNames : definitions' = SetLast(definitions, "short_name", <<c>>)
    /\ UNCHANGED <<args, result, help_out>>

Required ==
    /\ Idle
    /\ Len(definitions) > 0
    /\ definitions' = SetLast(definitions, "required", TRUE)
    /\ UNCHANGED <<args, result, help_out>>

WithHelp ==
    /\ Idle
    /\ Len(definitions) > 0
    /\ \E h \in HelpTexts : definitions' = SetLast(definitions, "help", h)
    /\ UNCHANGED <<args, result, help_out>>

CallGenerateHelp ==
    /\ Idle
    /\ help_out' = GenerateHelp(definitions)
    /\ UNCHANGED <<definitions, args, result>>

Parse ==
    /\ Idle
    /\ \E argv \in ArgVectors :
         /\ args' = argv
         /\ result' = ParseArgs(definitions, argv)
    /\ UNCHANGED <<definitions, help_out>>

\* The caller drops what the last call returned.
Drop ==
    /\ ~Idle
    /\ args' = <<>>
    /\ result' = NoResult
    /\ help_out' = <<>>
    /\ UNCHANGED definitions

Next ==
    \/ AddFlag
    \/ AddOption
    \/ AddPositional
    \/ WithShortName
    \/ Required
    \/ Parse
    \/ Drop

(* The registry is built, parsed against, and what parse returned dropped.   *)
(* parse never reads a definition's help text, so with_help is left to      *)
(* SpecHelp.                                                                *)
Spec == Init /\ [][Next]_vars

NextHelp ==
    \/ AddFlag
    \/ AddOption
    \/ AddPositional
    \/ WithShortName
    \/ Required
    \/ WithHelp
    \/ CallGenerateHelp
    \/ Drop

\* The registry is built, with help texts, and rendered by generate_help.
SpecHelp == Init /\ [][NextHelp]_vars

\* ------------------------------------------------- vocabulary of the claims

\* A call of parse has returned (or panicked).
Parsed == result.tag # "None"

\* The states of parse's loop on a call: before its first iteration, then after each of n.
RECURSIVE TraceFrom(_, _, _, _)
TraceFrom(defs, argv, st, n) ==
    IF n = 0 THEN <<st>>
    ELSE <<st>> \o TraceFrom(defs, argv, LoopStep(defs, argv, st), n - 1)

(* The loop states of the recorded call: Run[k + 1] is the state after k   *)
(* iterations, and the last one is the state in which the loop is left (an *)
(* iteration reads at least one token).                                    *)
Run == TraceFrom(definitions, args, LoopStart(args), Len(args))

Final(run) == run[Len(run)]

\* In the state st the loop is running and the next token it classifies is args[st.next].
Running(st) == st.ret = <<>> /\ st.next \in 2..Len(args)

\* The loop classifies args[j]: it is neither skipped, nor taken as a value, nor left unread.
Classified(run, j) == \E k \in 1..Len(run) : Running(run[k]) /\ run[k].next = j

IsHelpToken(t) == t = TokHelpLong \/ t = TokHelpShort

IsLongToken(t) == ~IsHelpToken(t) /\ Len(t) >= 2 /\ t[1] = "-" /\ t[2] = "-"

IsClusterToken(t) == ~IsHelpToken(t) /\ ~IsLongToken(t) /\ Len(t) >= 1 /\ t[1] = "-"

IsBareToken(t) == Len(t) = 0 \/ t[1] # "-"

LongOf(t) == SubSeq(t, 3, Len(t))

CharsOf(t) == SubSeq(t, 2, Len(t))

Min(S) == CHOOSE x \in S : \A y \in S : x <= y

Max(S) == CHOOSE x \in S : \A y \in S : x >= y

\* The first definition, in registration order, with the long name n (0: none).
FirstLongDef(defs, n) ==
    LET S == {d \in 1..Len(defs) : defs[d].long_name = n} IN
    IF S = {} THEN 0 ELSE Min(S)

\* The first definition, in registration order, with the short name c (0: none).
FirstShortDef(defs, c) ==
    LET S == {d \in 1..Len(defs) : defs[d].short_name = <<c>>} IN
    IF S = {} THEN 0 ELSE Min(S)

KindOfLong(defs, n) ==
    IF FirstLongDef(defs, n) = 0 THEN "None" ELSE defs[FirstLongDef(defs, n)].arg_type

KindOfShort(defs, c) ==
    IF FirstShortDef(defs, c) = 0 THEN "None" ELSE defs[FirstShortDef(defs, c)].arg_type

\* The characters of the cluster before position c all name flags.
FlagsBefore(defs, chars, c) ==
    \A m \in 1..(c - 1) : KindOfShort(defs, chars[m]) = "Flag"

\* The long names of the flags named by the characters before position c.
FlagNamesBefore(defs, chars, c) ==
    {defs[FirstShortDef(defs, chars[m])].long_name : m \in 1..(c - 1)}

(* The option the token t stands for: the index of its definition when t   *)
(* is `--name` of an option, or a cluster of flags ending in an option's   *)
(* short name; 0 otherwise.                                                *)
OptionOf(defs, t) ==
    IF IsLongToken(t)
    THEN IF KindOfLong(defs, LongOf(t)) = "Option" THEN FirstLongDef(defs, LongOf(t)) ELSE 0
    ELSE IF IsClusterToken(t) /\ Len(CharsOf(t)) >= 1
            /\ FlagsBefore(defs, CharsOf(t), Len(CharsOf(t)))
            /\ KindOfShort(defs, CharsOf(t)[Len(CharsOf(t))]) = "Option"
    THEN FirstShortDef(defs, CharsOf(t)[Len(CharsOf(t))])
    ELSE 0

\* ------------------------------------------------------------------ claims

(* C1, as the claim states it: when some token after the first equals      *)
(* `--help` or `-h` and no token before it makes the parse fail, parse     *)
(* returns Err(HelpRequested).                                             *)
C1_HelpAnywhere ==
    Parsed =>
      LET last == Final(Run) IN
      \A i \in 2..Len(args) :
        (IsHelpToken(args[i]) /\ (last.ret = <<>> \/ last.next - 1 >= i))
        => result = Err(HelpRequested)

(* C1, amended: when a token after the first equals `--help` or `-h` and   *)
(* the loop classifies it (no earlier token failed, and it was not taken   *)
(* as the value of the option before it), parse returns                    *)
(* Err(HelpRequested), also when `help` / `h` are registered names and     *)
(* required arguments are missing.                                         *)
C1_HelpWhenClassified ==
    Parsed =>
      LET run == Run IN
      \A i \in 2..Len(args) :
        (IsHelpToken(args[i]) /\ Classified(run, i)) => result = Err(HelpRequested)

\* C1's case: help asked after a flag, with `help` and `h` registered and required.
C1_Witness ==
    /\ result = Err(HelpRequested)
    /\ Len(args) >= 3
    /\ IsHelpToken(args[3])
    /\ ~IsHelpToken(args[2])
    /\ \E d \in 1..Len(definitions) :
         /\ definitions[d].long_name = NameHelp
         /\ definitions[d].short_name = <<"h">>
         /\ definitions[d].required

(* C2: in a cluster resolved left to right, a character whose first        *)
(* matching definition is an option fails the parse with                   *)
(* OptionInMiddleOfGroup(long_name) exactly when it is not the last        *)
(* character; as the last character, with a next token, it takes that      *)
(* token as its value into options[long_name], the flags of the earlier    *)
(* characters are recorded, and the loop goes on after the value.          *)
C2_OptionInCluster ==
    LET run == Run IN
    \A k \in 1..Len(args) :
      (Running(run[k]) /\ IsClusterToken(args[run[k].next])) =>
        LET j == run[k].next
            chars == CharsOf(args[j])
            before == run[k]
            after == run[k + 1]
        IN \A c \in 1..Len(chars) :
             (/\ FlagsBefore(definitions, chars, c)
              /\ KindOfShort(definitions, chars[c]) = "Option") =>
               LET ln == definitions[FirstShortDef(definitions, chars[c])].long_name IN
               /\ (after.ret = <<Err(OptionInMiddleOfGroup(ln))>>) <=> (c < Len(chars))
               /\ (c < Len(chars)) => result = Err(OptionInMiddleOfGroup(ln))
               /\ (c = Len(chars) /\ j < Len(args)) =>
                    /\ after.ret = <<>>
                    /\ after.next = j + 2
                    /\ ln \in DOMAIN after.results.options
                    /\ after.results.options[ln] = args[j + 1]
                    /\ after.results.flags =
                         before.results.flags \cup FlagNamesBefore(definitions, chars, c)
                    /\ after.results.positional = before.results.positional

\* C2's case: a cluster of a flag and a final option, whose value is returned.
C2_Witness ==
    /\ result.tag = "Ok"
    /\ \E j \in 2..(Len(args) - 1) :
         /\ Classified(Run, j)
         /\ IsClusterToken(args[j])
         /\ Len(CharsOf(args[j])) >= 2
         /\ OptionOf(definitions, args[j]) # 0
         /\ LET ln == definitions[OptionOf(definitions, args[j])].long_name IN
            /\ result.val.options[ln] = args[j + 1]
            /\ FlagNamesBefore(definitions, CharsOf(args[j]), Len(CharsOf(args[j])))
                 \subseteq result.val.flags

\* The tokens of the recorded call that the loop classifies and that stand for the option named n.
Occurrences(run, n) ==
    {j \in 2..Len(args) :
       /\ Classified(run, j)
       /\ OptionOf(definitions, args[j]) # 0
       /\ definitions[OptionOf(definitions, args[j])].long_name = n}

(* C3: when the loop processes an option's token and a next token exists,  *)
(* that token, whatever its text, becomes options[long_name]; after a      *)
(* successful parse options[long_name] is the token that followed the      *)
(* option's last occurrence, and a name that was never given has no entry. *)
C3_OptionValueLastWins ==
    LET run == Run IN
    /\ \A k \in 1..Len(args) :
         (/\ Running(run[k])
          /\ run[k].next < Len(args)
          /\ OptionOf(definitions, args[run[k].next]) # 0) =>
           LET j == run[k].next
               ln == definitions[OptionOf(definitions, args[j])].long_name
           IN /\ ln \in DOMAIN run[k + 1].results.options
              /\ run[k + 1].results.options[ln] = args[j + 1]
    /\ result.tag = "Ok" =>
         /\ DOMAIN result.val.options = {n \in LongNames : Occurrences(run, n) # {}}
         /\ \A n \in DOMAIN result.val.options :
              result.val.options[n] = args[Max(Occurrences(run, n)) + 1]

\* C3's case: an option given twice with two values, the last one a dash token.
C3_Witness ==
    /\ result.tag = "Ok"
    /\ \E n \in LongNames :
         LET occ == Occurrences(Run, n) IN
         /\ Cardinality(occ) = 2
         /\ args[Min(occ) + 1] # args[Max(occ) + 1]
         /\ result.val.options[n] = args[Max(occ) + 1]
         /\ ~IsBareToken(args[Max(occ) + 1])

\* Whether the definition is satisfied by the results, as the claim C4 words it.
Satisfied(def, results) ==
    \/ def.arg_type = "Flag" /\ def.long_name \in results.flags
    \/ def.arg_type = "Option" /\ def.long_name \in DOMAIN results.options
    \/ def.arg_type = "Positional" /\ Len(results.positional) > 0

\* The required definitions the results leave unsatisfied.
Unsatisfied(defs, results) ==
    {d \in 1..Len(defs) : defs[d].required /\ ~Satisfied(defs[d], results)}

(* C4: validation runs only when the whole token stream was consumed       *)
(* without a tokenization error; it returns                                *)
(* Err(MissingRequiredArgument(long_name)) for the first required and      *)
(* unsatisfied definition in registration order, Ok(results) when there is *)
(* none; a tokenization error is returned whatever is missing.             *)
C4_Validation ==
    Parsed =>
      LET last == Final(Run)
          unsat == Unsatisfied(definitions, last.results)
      IN IF last.ret # <<>>
         THEN /\ result = last.ret[1]
              /\ result.tag = "Err" => result.val.variant # "MissingRequiredArgument"
         ELSE /\ last.next = Len(args) + 1
              /\ IF unsat = {}
                 THEN result = Ok(last.results)
                 ELSE result =
                        Err(MissingRequiredArgument(definitions[Min(unsat)].long_name))

\* C4's case: two required definitions of different names are unsatisfied.
C4_Witness ==
    /\ result.tag = "Err"
    /\ result.val.variant = "MissingRequiredArgument"
    /\ Cardinality(Unsatisfied(definitions, Final(Run).results)) = 2
    /\ definitions[1].long_name # definitions[2].long_name
    /\ Len(args) >= 2

(* C5: when the loop processes an option, by `--long_name` or as the last  *)
(* character of a cluster, and no token is left after the current one,     *)
(* parse returns Err(MissingValueForOption(long_name)).                    *)
C5_MissingValue ==
    (/\ Parsed
     /\ Classified(Run, Len(args))
     /\ OptionOf(definitions, args[Len(args)]) # 0)
    => result = Err(MissingValueForOption(
                  definitions[OptionOf(definitions, args[Len(args)])].long_name))

\* C5's case: the option ends a cluster that is the last token, after a recorded flag.
C5_Witness ==
    /\ Parsed
    /\ Len(args) >= 2
    /\ Classified(Run, Len(args))
    /\ IsClusterToken(args[Len(args)])
    /\ OptionOf(definitions, args[Len(args)]) # 0
    /\ definitions[OptionOf(definitions, args[Len(args)])].long_name = NameOut
    /\ definitions[OptionOf(definitions, args[Len(args)])].short_name = <<"o">>

(* The name the token t is unknown by: X for `--X` with no definition      *)
(* named X, the character for a cluster whose flags lead to a character    *)
(* that is no definition's short name; an Option, None when there is none. *)
UnknownIn(defs, t) ==
    IF IsLongToken(t)
    THEN IF KindOfLong(defs, LongOf(t)) = "None" THEN <<LongOf(t)>> ELSE <<>>
    ELSE IF IsClusterToken(t)
    THEN LET S == {c \in 1..Len(CharsOf(t)) :
                     /\ FlagsBefore(defs, CharsOf(t), c)
                     /\ KindOfShort(defs, CharsOf(t)[c]) = "None"}
         IN IF S = {} THEN <<>> ELSE << <<CharsOf(t)[Min(S)]>> >>
    ELSE <<>>

(* C6: when the loop reaches `--X` (X not `help`) and no definition has    *)
(* the long name X, or reaches in a cluster a character that is no         *)
(* definition's short name, parse returns Err(UnknownArgument(X or the     *)
(* character)); the loop stops at that token, and no results and no        *)
(* validation outcome are returned.                                        *)
C6_UnknownArgument ==
    Parsed =>
      LET run == Run IN
      \A k \in 1..Len(args) :
        (Running(run[k]) /\ UnknownIn(definitions, args[run[k].next]) # <<>>) =>
          /\ result = Err(UnknownArgument(UnknownIn(definitions, args[run[k].next])[1]))
          /\ Final(run).next = run[k].next + 1
          /\ Final(run).ret = <<result>>

\* C6's case: an unknown character after a flag of the same cluster, tokens following, a required name missing.
C6_Witness ==
    /\ Parsed
    /\ \E j \in 2..(Len(args) - 1) :
         /\ Classified(Run, j)
         /\ IsClusterToken(args[j])
         /\ UnknownIn(definitions, args[j]) = << <<"o">> >>
         /\ Unsatisfied(definitions, Final(Run).results) # {}
         /\ Final(Run).results.flags # {}

(* C7, as the claim states it: no lookup for a prefixed token selects a    *)
(* positional definition, so parse returns Ok or an ArgParseError and      *)
(* never reaches unreachable!().                                           *)
C7_NeverUnreachable == Parsed => result.tag \in {"Ok", "Err"}

\* The definitions that are not positional, in registration order.
NotPositional(defs) ==
    LET Keep(x) == x.arg_type # "Positional" IN SelectSeq(defs, Keep)

\* The bare tokens from args[j] on that no option token before them takes as its value.
RECURSIVE BareFrom(_, _, _)
BareFrom(defs, argv, j) ==
    IF j > Len(argv) THEN <<>>
    ELSE IF IsBareToken(argv[j]) THEN <<argv[j]>> \o BareFrom(defs, argv, j + 1)
    ELSE IF OptionOf(defs, argv[j]) # 0 THEN BareFrom(defs, argv, j + 2)
    ELSE BareFrom(defs, argv, j + 1)

(* C8: after a successful parse the positional sequence is, in order and   *)
(* verbatim, the tokens after the first that do not start with `-` and     *)
(* were not taken as an option's value; the positional definitions have    *)
(* no part in it: the registry without them gives the same result.         *)
C8_Positional ==
    result.tag = "Ok" =>
      /\ result.val.positional = BareFrom(NotPositional(definitions), args, 2)
      /\ ParseArgs(NotPositional(definitions), args) = result

\* C8's case: a bare token is kept after another was taken as a value, a positional definition being registered.
C8_Witness ==
    /\ result.tag = "Ok"
    /\ Len(args) = 4
    /\ IsBareToken(args[3]) /\ IsBareToken(args[4]) /\ args[3] # args[4]
    /\ result.val.positional = <<args[4]>>
    /\ \E d \in 1..Len(definitions) : definitions[d].arg_type = "Positional"

\* The lines of a text in which every line ends with "\n".
RECURSIVE LinesFrom(_, _, _)
LinesFrom(text, i, line) ==
    IF i > Len(text) THEN (IF line = <<>> THEN <<>> ELSE <<line>>)
    ELSE IF text[i] = "\n" THEN <<line>> \o LinesFrom(text, i + 1, <<>>)
    ELSE LinesFrom(text, i + 1, Append(line, text[i]))

Lines(text) == LinesFrom(text, 1, <<>>)

(* C9, as the claim states it: generate_help returns exactly the Usage     *)
(* line first, an empty line, `Options:`, one line per flag or option in   *)
(* registration order, an empty line, `Arguments:`, and one line per       *)
(* positional in registration order.                                       *)
C9_HelpLayout ==
    help_out # <<>> =>
      Lines(help_out) =
        Lines(UsageText \o OptionsText \o OptionLines(definitions, 1)
              \o ArgumentsText \o PositionalLines(definitions, 1))

(* C10: parse drops the first token without reading it: the call returns   *)
(* what it returns with any other first token, and an empty argument       *)
(* vector is parsed as a vector of one token is.                           *)
C10_FirstTokenDiscarded ==
    Parsed =>
      \A t \in Tokens \cup ProgramTokens :
        IF args = <<>>
        THEN result = ParseArgs(definitions, <<t>>)
        ELSE result = ParseArgs(definitions, <<t>> \o Tail(args))

\* C10's case: the first token is `--help`, `help` is a registered option, and parse succeeds.
C10_Witness ==
    /\ result.tag = "Ok"
    /\ Len(args) >= 2
    /\ args[1] = TokHelpLong
    /\ KindOfLong(definitions, NameHelp) = "Option"
    /\ result.val.positional # <<>>

\* The tokens from args[j] on that the loop classifies and that are bare or exactly `-`.
RECURSIVE BareOrDashFrom(_, _)
BareOrDashFrom(run, j) ==
    IF j > Len(args) THEN <<>>
    ELSE (IF Classified(run, j) /\ (IsBareToken(args[j]) \/ args[j] = <<"-">>)
          THEN <<args[j]>> ELSE <<>>)
         \o BareOrDashFrom(run, j + 1)

(* C11, as the claim states it: a token that is exactly `-` is not a       *)
(* cluster but a bare token, so after a successful parse it stands in the  *)
(* positional sequence at its encounter position, and a parse whose loop   *)
(* classified it does not report a required positional as missing.         *)
C11_DashIsPositional ==
    LET run == Run IN
    /\ result.tag = "Ok" => result.val.positional = BareOrDashFrom(run, 2)
    /\ (/\ result.tag = "Err"
        /\ result.val.variant = "MissingRequiredArgument"
        /\ \E j \in 2..Len(args) : Classified(run, j) /\ args[j] = <<"-">>)
       => \E d \in 1..Len(definitions) :
            /\ definitions[d].required
            /\ definitions[d].arg_type # "Positional"
            /\ ~Satisfied(definitions[d], Final(run).results)

====
